---------------------------- MODULE Spec2Model ----------------------------
(***************************************************************************)
(* formgram: forms rendered as chat messages with inline keyboards.  The   *)
(* whole state of a form lives in the message; every callback decodes the  *)
(* message (from_message), mutates one field and renders it again          *)
(* (to_message, make_markup).                                              *)
(*                                                                         *)
(* Text is a sequence of tokens.  A token is an indivisible run of         *)
(* characters ("a", ":", " ", "\n", "Name", an icon, a separator code      *)
(* point).  All string operations of the code (find, split, splitlines,    *)
(* slicing, strip, replace) are carried out on these sequences.            *)
(***************************************************************************)
EXTENDS Integers, Sequences, FiniteSets, TLC

VARIABLES
    cls,                \* the form class built by FormMeta.__new__
    pc,                 \* position of the codec scenario
    form,               \* the form instance of the codec scenario (fields_dict, in order)
    text,               \* message.text of the message handed to from_message
    html,               \* message.html_text of the same message
    decoded,            \* result of from_message
    msg,                \* the form message of the chat
    prompts,            \* the "Send new value" messages of the chat
    next_step_handlers, \* bot.next_step_handlers[chat_id]
    out,                \* bot calls and collaborator callbacks made by the last event
    exc,                \* exception that left the handler of the last event
    cb_form,            \* form instance handed to the collaborator callback by the last event
    last                \* the last event: its kind, callback data and the form it decoded

vars == <<cls, pc, form, text, html, decoded, msg, prompts, next_step_handlers,
          out, exc, cb_form, last>>

-----------------------------------------------------------------------------
(* Bounds *)

\* longest form schema drawn (number of fields)
MaxFields == 2
\* largest absolute value of an integer field value
MaxInt == 11
\* longest choice list assigned to a dynamic-choice field
MaxChoices == 3
\* most tokens a transport may cut from the end of a message in the codec scenario
MaxCut == 2
\* most free-text prompts opened in one conversation
MaxPrompts == 2

-----------------------------------------------------------------------------
(* Python string primitives on token sequences *)

Min(a, b) == IF a < b THEN a ELSE b

\* index normalisation of a slice bound
SliceBound(i, n) == IF i < 0 THEN (IF i + n < 0 THEN 0 ELSE i + n) ELSE Min(i, n)

\* s[lo:hi], 0-based, negative bounds counted from the end
PySlice(s, lo, hi) == SubSeq(s, SliceBound(lo, Len(s)) + 1, SliceBound(hi, Len(s)))

\* s[lo:]
PyFrom(s, lo) == PySlice(s, lo, Len(s))

\* s[:hi]
PyUpTo(s, hi) == PySlice(s, 0, hi)

\* s.find(sub): 0-based index of the first occurrence, -1 when there is none
RECURSIVE FindFrom(_, _, _)
FindFrom(s, sub, i) ==
    IF i + Len(sub) > Len(s) THEN -1
    ELSE IF SubSeq(s, i + 1, i + Len(sub)) = sub THEN i
    ELSE FindFrom(s, sub, i + 1)

Find(s, sub) == FindFrom(s, sub, 0)

\* s.startswith(p)
StartsWith(s, p) == Len(p) <= Len(s) /\ SubSeq(s, 1, Len(p)) = p

\* s.split(sep): always at least one part
RECURSIVE Split(_, _)
SplitAt(s, sep, i) ==
    IF i = -1 THEN <<s>>
    ELSE <<PyUpTo(s, i)>> \o Split(PyFrom(s, i + Len(sep)), sep)

Split(s, sep) == SplitAt(s, sep, Find(s, sep))

\* s.splitlines(): no part for the empty string or after a final line break
RECURSIVE SplitLines(_)
SplitLinesAt(s, i) ==
    IF i = -1 THEN <<s>>
    ELSE <<PyUpTo(s, i)>> \o SplitLines(PyFrom(s, i + 1))

SplitLines(s) == IF s = <<>> THEN <<>> ELSE SplitLinesAt(s, Find(s, <<"\n">>))

\* sep.join(parts)
RECURSIVE Join(_, _)
Join(parts, sep) ==
    IF parts = <<>> THEN <<>>
    ELSE IF Len(parts) = 1 THEN parts[1]
    ELSE parts[1] \o sep \o Join(Tail(parts), sep)

Whitespace == {" ", "\n", "THIN"}

\* s.rstrip()
RECURSIVE RStrip(_)
RStrip(s) ==
    IF s # <<>> /\ s[Len(s)] \in Whitespace THEN RStrip(SubSeq(s, 1, Len(s) - 1)) ELSE s

\* s.lstrip()
RECURSIVE LStrip(_)
LStrip(s) ==
    IF s # <<>> /\ s[1] \in Whitespace THEN LStrip(Tail(s)) ELSE s

\* s.strip()
Strip(s) == LStrip(RStrip(s))

Digits == <<"0", "1", "2", "3", "4", "5", "6", "7", "8", "9">>

DigitValue(t) == (CHOOSE i \in 1..Len(Digits) : Digits[i] = t) - 1

\* str(n) of an int
RECURSIVE NatToStr(_)
NatToStr(n) ==
    IF n < Len(Digits) THEN <<Digits[n + 1]>>
    ELSE NatToStr(n \div Len(Digits)) \o <<Digits[(n % Len(Digits)) + 1]>>

IntToStr(n) == IF n < 0 THEN <<"-">> \o NatToStr(0 - n) ELSE NatToStr(n)

RECURSIVE DigitsToNat(_)
DigitsToNat(s) ==
    IF s = <<>> THEN 0
    ELSE DigitsToNat(SubSeq(s, 1, Len(s) - 1)) * Len(Digits) + DigitValue(s[Len(s)])

\* int(s): surrounding whitespace and a sign are accepted, anything else raises ValueError
ParseDigits(body, sign) ==
    IF body = <<>> \/ \E i \in 1..Len(body) : \A d \in 1..Len(Digits) : Digits[d] # body[i]
    THEN [ok |-> FALSE, n |-> 0]
    ELSE [ok |-> TRUE, n |-> sign * DigitsToNat(body)]

ParseSigned(t) ==
    IF t # <<>> /\ t[1] \in {"-", "+"}
    THEN ParseDigits(Tail(t), IF t[1] = "-" THEN -1 ELSE 1)
    ELSE ParseDigits(t, 1)

ParseInt(s) == ParseSigned(Strip(s))

-----------------------------------------------------------------------------
(* Constants of formgram.py *)

FORMGRAM_PREFIX == <<"__fg">>
MISSING_VALUE_ICON == <<"MISSING">>
READ_ONLY_ICON == <<"LOCK">>
EDIT_ICON == <<"PENCIL">>

\* FormActions
EDIT == <<"ed">>
SUBMIT == <<"ok">>
CANCEL == <<"ca">>
DISPLAY_MAIN == <<"dm">>
CUSTOM_BUTTON == <<"cb">>
FIELD_HANDLER == <<"fh">>

\* BaseForm class attributes
separator == <<":", " ">>
missing_value_str == <<>>
meta_char == <<"THIN">>
meta_link_prefix == <<"http://ke.mi/?meta=">>
meta_kv_separator == <<"U+0802">>
meta_concatenator == <<"U+0801">>

\* DynamicChoiceField.separator
choice_separator == <<"U+080D">>

\* BoolField default representation
val2repr(b) == IF b THEN <<"CHECK">> ELSE <<"CROSS">>

make_form_prefix(form_name) == FORMGRAM_PREFIX \o <<"/">> \o form_name

make_edit_cb_data(form_name, field_name) ==
    make_form_prefix(form_name) \o <<"/">> \o EDIT \o <<"/">> \o <<field_name>>

make_cb_data(form_name, form_action) ==
    make_form_prefix(form_name) \o <<"/">> \o form_action

make_custom_button_cb_data(form_name, button_idx) ==
    make_form_prefix(form_name) \o <<"/">> \o CUSTOM_BUTTON \o <<"/">> \o IntToStr(button_idx)

make_field_handler_cb_data(form_name, field_name, data) ==
    make_form_prefix(form_name) \o <<"/">> \o FIELD_HANDLER \o <<"/">> \o <<field_name>>
        \o <<"/">> \o data

CANCEL_CB_DATA == FORMGRAM_PREFIX \o <<"/">> \o <<"cancel">>

MdSpecial == {"_", "*", "~", "[", "BACKTICK"}

\* escape_md: every underscore, asterisk, tilde, opening bracket and backtick gets a
\* backslash in front
RECURSIVE escape_md(_)
escape_md(string) ==
    IF string = <<>> THEN <<>>
    ELSE (IF string[1] \in MdSpecial THEN <<"\\", string[1]>> ELSE <<string[1]>>)
         \o escape_md(Tail(string))

-----------------------------------------------------------------------------
(* Values.  A value is None or a value of one Python type. *)

None == [k |-> "none", s |-> <<>>, n |-> 0, b |-> FALSE]
StrV(s) == [k |-> "str", s |-> s, n |-> 0, b |-> FALSE]
IntV(n) == [k |-> "int", s |-> <<>>, n |-> n, b |-> FALSE]
BoolV(b) == [k |-> "bool", s |-> <<>>, n |-> 0, b |-> b]

\* Python's `not v`
PyNot(v) ==
    CASE v.k = "none" -> BoolV(TRUE)
      [] v.k = "bool" -> BoolV(~v.b)
      [] v.k = "int"  -> BoolV(v.n = 0)
      [] OTHER        -> BoolV(v.s = <<>>)

\* str(v) of a value that is not None
PyStr(v) ==
    CASE v.k = "str"  -> v.s
      [] v.k = "int"  -> IntToStr(v.n)
      [] v.k = "bool" -> IF v.b THEN <<"True">> ELSE <<"False">>
      [] OTHER        -> <<"None">>

\* the result of an operation that may raise
Ok(v) == [ok |-> TRUE, err |-> "", val |-> v]
Raise(e) == [ok |-> FALSE, err |-> e, val |-> None]

-----------------------------------------------------------------------------
(* Field type system *)

NoLabel == <<"<None>">>
NoName == "<None>"

\* Field.__init__.  obj tells which object a field record stands for: the object made
\* by the class statement ("definition") or a copy of it ("copy"); a write to a field
\* whose obj is "definition" is a write to the schema's own field.
Field(cls_, type_, initial_value, required, label, read_only, noneable, choices, row_width) ==
    [cls_ |-> cls_, name |-> NoName, type_ |-> type_, noneable |-> noneable,
     value |-> initial_value, required |-> required, label |-> label,
     read_only |-> read_only, choices |-> choices, row_width |-> row_width,
     obj |-> "definition"]

\* copy.deepcopy(field)
deepcopy(f) == [f EXCEPT !.obj = "copy"]

StrField(initial_value, required, label, read_only, noneable) ==
    Field("StrField", "str", initial_value, required, label, read_only, noneable, <<>>, 1)

IntField(initial_value, required, label, read_only, noneable) ==
    Field("IntField", "int", initial_value, required, label, read_only, noneable, <<>>, 1)

BoolField(initial_value, required, label, read_only, noneable) ==
    Field("BoolField", "bool", initial_value, required, label, read_only, noneable, <<>>, 1)

ChoiceField(choices, row_width, initial_value, required, label, read_only, noneable) ==
    Field("ChoiceField", "str", initial_value, required, label, read_only, noneable,
          choices, row_width)

DynamicChoiceField(row_width, required, label, read_only) ==
    Field("DynamicChoiceField", "str", None, required, label, read_only, TRUE, <<>>, row_width)

\* an assignment that checks nothing
SetUnchecked(f, new_value) == Ok([f EXCEPT !.value = new_value])

\* Field.value setter
SetValue(f, new_value) ==
    IF new_value = None /\ ~f.noneable THEN Raise("ValueError")
    ELSE IF new_value.k \notin {f.type_, "none"} THEN Raise("ValueError")
    ELSE Ok([f EXCEPT !.value = new_value])

needs_value(f) == f.required /\ f.value = None

to_repr(f, missing) ==
    IF f.value = None THEN missing
    ELSE CASE f.cls_ = "StrField"  -> escape_md(f.value.s)
           [] f.cls_ = "BoolField" -> val2repr(f.value.b)
           [] OTHER                -> PyStr(f.value)

\* BoolField.repr2val
repr2val(t) ==
    IF t = val2repr(TRUE) THEN Ok(BoolV(TRUE))
    ELSE IF t = val2repr(FALSE) THEN Ok(BoolV(FALSE))
    ELSE Raise("KeyError")

\* self.type_(text): str(text) or int(text)
CastInt(parsed) == IF parsed.ok THEN Ok(IntV(parsed.n)) ELSE Raise("ValueError")

Cast(f, string) ==
    IF f.type_ = "int" THEN CastInt(ParseInt(string))
    ELSE IF f.type_ = "bool" THEN Ok(BoolV(string # <<>>))
    ELSE Ok(StrV(string))

from_str_value(f, string) == Cast(f, string)

\* A metadata dict is a function from keys to values; NoMeta is Python's None.
NoMeta == [k |-> "none", d |-> <<>>]
Meta(d) == [k |-> "dict", d |-> d]
ChoicesKey == <<"choices">>

get_meta(f) ==
    IF f.cls_ = "DynamicChoiceField"
    THEN (ChoicesKey :> Join(f.choices, choice_separator))
    ELSE <<>>

\* self.value = <converted text>, after a conversion that may raise
SetConverted(f, converted) ==
    IF converted.ok THEN SetValue(f, converted.val) ELSE Raise(converted.err)

\* DynamicChoiceField.from_repr after Field.from_repr: self.choices = meta['choices'].split(...)
SetChoicesFromMeta(new, meta) ==
    IF ~new.ok THEN new
    ELSE IF meta.k = "none" THEN Raise("TypeError")
    ELSE IF ChoicesKey \notin DOMAIN meta.d THEN Raise("KeyError")
    ELSE Ok([new.val EXCEPT !.choices = Split(meta.d[ChoicesKey], choice_separator)])

\* from_repr: text_value is None or a StrV; the result is a copy of the field
from_repr(f, text_value, meta) ==
    CASE f.cls_ = "StrField" -> SetValue(deepcopy(f), text_value)
      [] f.cls_ = "DynamicChoiceField" ->
            SetChoicesFromMeta(SetValue(deepcopy(f), text_value), meta)
      [] text_value = None -> SetValue(deepcopy(f), None)
      [] f.cls_ = "BoolField" -> SetConverted(deepcopy(f), repr2val(text_value.s))
      [] OTHER -> SetConverted(deepcopy(f), Cast(f, text_value.s))

get_field_icon(f) ==
    IF f.read_only THEN READ_ONLY_ICON
    ELSE IF needs_value(f) THEN MISSING_VALUE_ICON
    ELSE EDIT_ICON

-----------------------------------------------------------------------------
(* Form schema: FormMeta.__new__ and the generated __init__ *)

\* index of the field called name in a fields_dict (0 when there is none)
FieldIndex(fields, name) ==
    IF \E i \in 1..Len(fields) : fields[i].name = name
    THEN CHOOSE i \in 1..Len(fields) : fields[i].name = name
    ELSE 0

\* the loop of FormMeta.__new__ over fields_dict: a label that is None becomes the
\* attribute name, the attribute name becomes the field's name
NamedFields(decl) ==
    [i \in 1..Len(decl) |->
        [decl[i].field EXCEPT
            !.label = IF decl[i].field.label = NoLabel THEN <<decl[i].attr>>
                      ELSE decl[i].field.label,
            !.name = decl[i].attr]]

\* class_._label_to_field[field_obj.label] = field_name, in schema order
RECURSIVE LabelIndex(_)
LabelIndex(fields) ==
    IF fields = <<>> THEN <<>>
    ELSE LET n == Len(fields)
         IN  (fields[n].label :> fields[n].name) @@ LabelIndex(SubSeq(fields, 1, n - 1))

\* custom buttons normalisation: a single button becomes a row of its own
NormalizeButtons(items) ==
    [i \in 1..Len(items) |-> IF items[i].single THEN <<items[i].button>> ELSE items[i].row]

\* the class statement before the metaclass has run
ClassBody(name, decl, cancel_callback, custom_buttons) ==
    [name |-> name,
     attrs |-> decl,
     fields_dict |-> <<>>,
     label_to_field |-> <<>>,
     cancel_callback |-> cancel_callback,
     custom_buttons |-> custom_buttons]

\* FormMeta.__new__: the class, or the exception that building it raises
FormMeta(body) ==
    IF \E i \in 1..Len(body.custom_buttons) :
           ~body.custom_buttons[i].single /\ ~body.custom_buttons[i].iterable
    THEN Raise("ValueError")
    ELSE Ok([body EXCEPT
                !.fields_dict = NamedFields(body.attrs),
                !.label_to_field = LabelIndex(NamedFields(body.attrs)),
                !.custom_buttons = NormalizeButtons(body.custom_buttons)])

IsField(x) == "cls_" \in DOMAIN x

\* a construction that takes the class's field itself where the code takes a copy
InitFieldShared(field_obj, kw) ==
    IF field_obj.name \notin DOMAIN kw THEN Ok(field_obj)
    ELSE IF IsField(kw[field_obj.name]) THEN Ok(kw[field_obj.name])
    ELSE SetValue(field_obj, kw[field_obj.name])

\* one pass of the loop of form_init: a provided Field is taken as it is, a provided
\* value is assigned to a copy of the class's field
InitField(field_obj, kw) ==
    IF field_obj.name \notin DOMAIN kw THEN Ok(deepcopy(field_obj))
    ELSE IF IsField(kw[field_obj.name]) THEN Ok(kw[field_obj.name])
    ELSE SetValue(deepcopy(field_obj), kw[field_obj.name])

\* the schema's fields once a program has worked on the form instance: a field of the
\* instance that is the schema's own object shows in the schema as the instance has it
WriteThrough(fields_dict, instance) ==
    [i \in 1..Len(fields_dict) |->
        IF \E j \in 1..Len(instance) :
               instance[j].obj = "definition" /\ instance[j].name = fields_dict[i].name
        THEN instance[CHOOSE j \in 1..Len(instance) :
                          instance[j].obj = "definition" /\ instance[j].name = fields_dict[i].name]
        ELSE fields_dict[i]]

\* the first exception of a loop, or the results in order
Collect(one, rest) ==
    IF ~one.ok THEN Raise(one.err)
    ELSE IF ~rest.ok THEN rest
    ELSE Ok(<<one.val>> \o rest.val)

RECURSIVE InitFields(_, _, _)
InitFields(fields, kw, i) ==
    IF i > Len(fields) THEN Ok(<<>>)
    ELSE Collect(InitField(fields[i], kw), InitFields(fields, kw, i + 1))

form_init(class_, kw) == InitFields(class_.fields_dict, kw, 1)

-----------------------------------------------------------------------------
(* Codec *)

\* f'{k}{kv_separator}{v}' for the items of a dict (the dicts of this program have at
\* most one key)
MetaPairs(meta) ==
    IF DOMAIN meta = {} THEN <<>>
    ELSE <<(CHOOSE k \in DOMAIN meta : TRUE) \o meta_kv_separator
             \o meta[CHOOSE k \in DOMAIN meta : TRUE]>>

pack_meta_as_link(meta) == meta_link_prefix \o Join(MetaPairs(meta), meta_concatenator)

\* dict(...) of one more pair: every pair must have exactly two parts
AddPair(kv, before) ==
    IF ~before.ok THEN before
    ELSE IF Len(kv) # 2 THEN Raise("ValueError")
    ELSE Ok((kv[1] :> kv[2]) @@ before.val)

\* dict(pair.split(kv_separator) for pair in pairs)
RECURSIVE PairsToDict(_)
PairsToDict(pairs) ==
    IF pairs = <<>> THEN Ok(<<>>)
    ELSE AddPair(Split(pairs[Len(pairs)], meta_kv_separator),
                 PairsToDict(SubSeq(pairs, 1, Len(pairs) - 1)))

MetaOfDict(d) == IF d.ok THEN Ok(Meta(d.val)) ELSE Raise(d.err)

parse_meta_from_link(link) ==
    IF PyFrom(link, Len(meta_link_prefix)) = <<>> THEN Ok(NoMeta)
    ELSE MetaOfDict(PairsToDict(Split(PyFrom(link, Len(meta_link_prefix)),
                                      meta_concatenator)))

HrefOpen == <<"href=\"">>
Quote == <<"\"">>

\* re.findall(r'href="(.*?)"', line)[0], or None (here NoHref)
NoHref == <<"<None>">>

\* the first match of the group in rest, the text after the first href="
HrefIn(rest) == IF Find(rest, Quote) = -1 THEN NoHref ELSE PyUpTo(rest, Find(rest, Quote))

extract_href_from_line(line) ==
    IF Find(line, HrefOpen) = -1 THEN NoHref
    ELSE HrefIn(PyFrom(line, Find(line, HrefOpen) + Len(HrefOpen)))

meta_container(meta) ==
    IF Cardinality(DOMAIN meta) > 0
    THEN <<"[">> \o meta_char \o <<"]", "(">> \o pack_meta_as_link(meta) \o <<")">>
    ELSE meta_char

to_message_line(f) ==
    get_field_icon(f) \o meta_container(get_meta(f)) \o escape_md(f.label) \o separator
        \o to_repr(f, missing_value_str)

to_message(fields) ==
    Join([i \in 1..Len(fields) |-> to_message_line(fields[i])], <<"\n">>)

\* kwargs[field_name] = field.from_repr(value, meta)
FieldKwarg(field_name, value_or_field) ==
    IF value_or_field.ok THEN Ok([name |-> field_name, field |-> value_or_field.val])
    ELSE Raise(value_or_field.err)

\* meta = None; if href: meta = cls.parse_meta_from_link(href)
LineMeta(href) ==
    IF href # NoHref /\ href # <<>> THEN parse_meta_from_link(href) ELSE Ok(NoMeta)

\* the end of one pass of from_message: label lookup and from_repr
FieldOfLine(class_, label, value, meta) ==
    IF ~meta.ok THEN Raise(meta.err)
    ELSE IF label \notin DOMAIN class_.label_to_field THEN Raise("KeyError")
    ELSE FieldKwarg(class_.label_to_field[label],
                    from_repr(class_.fields_dict[FieldIndex(class_.fields_dict,
                                                            class_.label_to_field[label])],
                              IF value = missing_value_str THEN None ELSE StrV(value),
                              meta.val))

\* label and value of a line when every line, the last one too, is cut at sep_idx
LabelAndValueUntrimmed(class_, text_line, sep_idx, is_last, trimmed_separator, meta) ==
    FieldOfLine(class_, PyUpTo(text_line, sep_idx),
                PyFrom(text_line, sep_idx + Len(separator)), meta)

\* label and value of a line without its icon and metadata
LabelAndValue(class_, text_line, sep_idx, is_last, trimmed_separator, meta) ==
    IF sep_idx = -1 /\ is_last
    THEN IF text_line = <<>> THEN Raise("IndexError")
         ELSE IF <<text_line[Len(text_line)]>> # trimmed_separator THEN Raise("ValueError")
         ELSE FieldOfLine(class_, PyUpTo(text_line, 0 - Len(trimmed_separator)),
                          missing_value_str, meta)
    ELSE FieldOfLine(class_, PyUpTo(text_line, sep_idx),
                     PyFrom(text_line, sep_idx + Len(separator)), meta)

\* one pass of the loop of from_message: the (field name, field) it yields, or the
\* exception
from_message_line(class_, text_line, html_line, is_last) ==
    LabelAndValue(class_, text_line, Find(text_line, separator), is_last, Strip(separator),
                  LineMeta(extract_href_from_line(html_line)))

\* the loop of from_message over zip(text_lines, html_lines), from line i on
RECURSIVE from_message_lines(_, _, _, _, _)
AddKwarg(class_, text_lines, html_lines, i, kwargs, r) ==
    IF ~r.ok THEN Raise(r.err)
    ELSE from_message_lines(class_, text_lines, html_lines, i + 1,
                            (r.val.name :> r.val.field) @@ kwargs)

from_message_lines(class_, text_lines, html_lines, i, kwargs) ==
    IF i > Min(Len(text_lines), Len(html_lines)) THEN Ok(kwargs)
    ELSE AddKwarg(class_, text_lines, html_lines, i, kwargs,
                  from_message_line(class_,
                                    PyFrom(text_lines[i], Find(text_lines[i], meta_char) + 1),
                                    html_lines[i], i = Len(text_lines)))

\* cls(**kwargs)
NewFromKwargs(class_, kwargs) ==
    IF kwargs.ok THEN form_init(class_, kwargs.val) ELSE Raise(kwargs.err)

from_message(class_, message_text, message_html_text) ==
    NewFromKwargs(class_, from_message_lines(class_, SplitLines(message_text),
                                             SplitLines(message_html_text), 1, <<>>))

\* the keys of dict(filter(... entry[1].required and entry[1].value is None ...)), in
\* the order of fields_dict
RECURSIVE missing_fields(_)
missing_fields(fields) ==
    IF fields = <<>> THEN <<>>
    ELSE (IF fields[1].required /\ fields[1].value = None THEN <<fields[1].name>> ELSE <<>>)
         \o missing_fields(Tail(fields))

\* a validation that never raises
ValidateNothing(fields) == Ok(None)

\* if missing_fields: raise ValidationError(missing_fields=missing_fields)
validate(fields) ==
    IF missing_fields(fields) # <<>>
    THEN [ok |-> FALSE, err |-> "ValidationError", missing_fields |-> missing_fields(fields)]
    ELSE Ok(None)

-----------------------------------------------------------------------------
(* The transport: what a message sent with parse_mode='Markdown' looks like when it
   comes back in a callback.  message.text is the rendered text, message.html_text
   the same text with its links as <a href="...">; the message is trimmed. *)

MdEscapable == {"_", "*", "[", "BACKTICK"}

RECURSIVE MdRender(_, _)
\* [text](url) at the head of md, the url url_end tokens long, or a plain token
MdHead(md, close, url_end, as_html) ==
    IF md[1] = "[" /\ close # -1 /\ url_end # -1
    THEN (IF as_html
          THEN <<"<a ">> \o HrefOpen \o PySlice(md, close + 2, close + 2 + url_end) \o Quote
                   \o <<">">> \o PySlice(md, 1, close) \o <<"</a>">>
          ELSE PySlice(md, 1, close))
         \o MdRender(PyFrom(md, close + 2 + url_end + 1), as_html)
    ELSE <<md[1]>> \o MdRender(Tail(md), as_html)

MdFrom(md, close, as_html) ==
    MdHead(md, close, Find(PyFrom(md, close + 2), <<")">>), as_html)

MdRender(md, as_html) ==
    IF md = <<>> THEN <<>>
    ELSE IF md[1] = "\\" /\ Len(md) >= 2 /\ md[2] \in MdEscapable
    THEN <<md[2]>> \o MdRender(PyFrom(md, 2), as_html)
    ELSE MdFrom(md, Find(md, <<"]", "(">>), as_html)

TransportText(md) == RStrip(MdRender(md, FALSE))

TransportHtml(md) == RStrip(MdRender(md, TRUE))

-----------------------------------------------------------------------------
(* The forms checked: field declarations of docs/examples/example.py (UserForm) and
   variants of them, in every order. *)

Decl(attr, field) == [attr |-> attr, field |-> field]

name_field == Decl("name", StrField(None, TRUE, <<"Name">>, FALSE, TRUE))
username_field == Decl("username", StrField(None, FALSE, <<"Username">>, TRUE, TRUE))
age_field == Decl("age", IntField(None, FALSE, NoLabel, FALSE, TRUE))
is_admin_field == Decl("is_admin", BoolField(BoolV(FALSE), TRUE, <<"Is", " ", "Admin">>, FALSE, TRUE))
sex_field == Decl("sex", ChoiceField(<<(<<"M">>), (<<"F">>)>>, 1, StrV(<<"M">>), TRUE, <<"Sex">>,
                                     FALSE, TRUE))
day_of_month_field ==
    Decl("day_of_month", DynamicChoiceField(7, TRUE, <<"Day", " ", "of", " ", "Month">>, FALSE))
\* a required boolean without an initial value
agree_field == Decl("agree", BoolField(None, TRUE, NoLabel, FALSE, TRUE))
\* a boolean that is neither required nor set
flag_field == Decl("flag", BoolField(None, FALSE, NoLabel, FALSE, TRUE))
\* a second field labelled 'Name'
nick_field == Decl("nick", StrField(None, FALSE, <<"Name">>, FALSE, TRUE))
\* an integer that is not None-able
level_field == Decl("level", IntField(IntV(7), FALSE, NoLabel, FALSE, FALSE))

Catalog == {name_field, username_field, age_field, is_admin_field, sex_field,
            day_of_month_field, agree_field, flag_field, nick_field, level_field}

\* sequences of n distinct declarations
RECURSIVE DeclSeqs(_)
DeclSeqs(n) ==
    IF n = 0 THEN {<<>>}
    ELSE {Append(d, c) : d \in {d \in DeclSeqs(n - 1) : Len(d) = n - 1},
                          c \in Catalog} \cup DeclSeqs(n - 1)

Declarations ==
    {d \in DeclSeqs(MaxFields) :
        /\ d # <<>>
        /\ \A i, j \in 1..Len(d) : i # j => d[i].attr # d[j].attr}

FormName == <<"User", "Form">>

\* free texts a user sends
Texts == {<<"a", "_", "b">>, <<"7">>}

\* string values a program assigns
Strings == Texts \cup {<<>>, <<"a", " ">>}

\* choice lists a program assigns to a dynamic-choice field
ChoiceLists == {[i \in 1..n |-> <<Digits[i + 1]>>] : n \in 0..MaxChoices}

LongestChoiceList == [i \in 1..MaxChoices |-> <<Digits[i + 1]>>]

\* a string that is in no list of choices
NoChoice == <<"7">>

\* values of the declared type; for a choice field the choices and one other string
ValuesOf(f) ==
    CASE f.cls_ = "StrField"  -> {None} \cup {StrV(t) : t \in Strings}
      [] f.cls_ = "IntField"  -> {None, IntV(0 - MaxInt), IntV(7)}
      [] f.cls_ = "BoolField" -> {None, BoolV(TRUE), BoolV(FALSE)}
      [] OTHER -> {None, StrV(NoChoice)} \cup {StrV(f.choices[i]) : i \in 1..Len(f.choices)}

-----------------------------------------------------------------------------
(* Codec scenario: a form is built, given values, sent, and decoded from the message
   that comes back. *)

NotDecoded == Raise("-")
NoMessage == [id |-> 0, live |-> FALSE, text |-> <<>>, html |-> <<>>, markup |-> <<>>]
NoEvent == [kind |-> "-", data |-> <<>>, form |-> <<>>]

RouterIdle ==
    /\ msg = NoMessage
    /\ prompts = <<>>
    /\ next_step_handlers = <<>>
    /\ out = <<>>
    /\ exc = ""
    /\ cb_form = <<>>
    /\ last = NoEvent

InitCodec ==
    /\ \E d \in Declarations : cls = ClassBody(FormName, d, FALSE, <<>>)
    /\ pc = "declared"
    /\ form = <<>>
    /\ text = <<>>
    /\ html = <<>>
    /\ decoded = NotDecoded
    /\ RouterIdle

UnchangedRouter == UNCHANGED <<msg, prompts, next_step_handlers, out, exc, cb_form, last>>

\* class UserForm(BaseForm): ... (FormMeta.__new__ runs)
BuildClass ==
    /\ pc = "declared"
    /\ \E built \in {FormMeta(cls)} :
           IF built.ok
           THEN pc' = "built" /\ cls' = built.val
           ELSE pc' = "build_failed" /\ cls' = cls
    /\ UNCHANGED <<form, text, html, decoded>>
    /\ UnchangedRouter

\* form = UserForm()
NewForm ==
    /\ pc = "built"
    /\ \E new \in {form_init(cls, <<>>)} :
           /\ new.ok
           /\ form' = new.val
           /\ cls' = [cls EXCEPT !.fields_dict = WriteThrough(@, new.val)]
    /\ pc' = "new"
    /\ UNCHANGED <<text, html, decoded>>
    /\ UnchangedRouter

\* form.<field> = v (Field.__set__)
Assign(i, v) ==
    /\ pc = "new"
    /\ \E set \in {SetValue(form[i], v)} :
           /\ set.ok
           /\ form' = [form EXCEPT ![i] = set.val]
           /\ cls' = [cls EXCEPT !.fields_dict =
                                 WriteThrough(@, [form EXCEPT ![i] = set.val])]
    /\ UNCHANGED <<pc, text, html, decoded>>
    /\ UnchangedRouter

\* form.fields_dict[<field>].choices = [...], the value reset to one of them or to None
AssignChoices(i, choices, v) ==
    /\ pc = "new"
    /\ form[i].cls_ = "DynamicChoiceField"
    /\ form' = [form EXCEPT ![i] = [@ EXCEPT !.choices = choices, !.value = v]]
    /\ cls' = [cls EXCEPT !.fields_dict =
                  WriteThrough(@, [form EXCEPT ![i] = [@ EXCEPT !.choices = choices,
                                                                !.value = v]])]
    /\ last' = [kind |-> "assign_choices", data |-> <<>>, form |-> <<>>]
    /\ UNCHANGED <<pc, text, html, decoded>>
    /\ UNCHANGED <<msg, prompts, next_step_handlers, out, exc, cb_form>>

\* bot.send_message(chat_id, self.to_message(), parse_mode='Markdown'), and the
\* message as a later callback carries it
SendMessage ==
    /\ pc = "new"
    /\ pc' = "sent"
    /\ \E md \in {to_message(form)} :
           /\ text' = TransportText(md)
           /\ html' = TransportHtml(md)
    /\ UNCHANGED <<cls, form, decoded>>
    /\ UnchangedRouter

\* a message that lost its last k tokens on the way
Cut(k) ==
    /\ pc = "sent"
    /\ k <= Len(text)
    /\ pc' = "cut"
    /\ text' = PyUpTo(text, Len(text) - k)
    /\ html' = PyUpTo(html, Len(html) - k)
    /\ UNCHANGED <<cls, form, decoded>>
    /\ UnchangedRouter

\* t without its last line
WithoutLastLine(t) == Join(SubSeq(SplitLines(t), 1, Len(SplitLines(t)) - 1), <<"\n">>)

\* a message of which one view (message.text or message.html_text) lost its last line
CutLine(view) ==
    /\ pc = "sent"
    /\ Len(SplitLines(text)) >= 2
    /\ pc' = "cut_line"
    /\ text' = IF view = "text" THEN WithoutLastLine(text) ELSE text
    /\ html' = IF view = "html" THEN WithoutLastLine(html) ELSE html
    /\ UNCHANGED <<cls, form, decoded>>
    /\ UnchangedRouter

\* class_.from_message(callback.message)
Decode ==
    /\ pc \in {"sent", "cut", "cut_line"}
    /\ pc' = CASE pc = "sent" -> "decoded"
               [] pc = "cut" -> "decoded_cut"
               [] OTHER -> "decoded_cut_line"
    /\ \E f \in {from_message(cls, text, html)} :
           /\ decoded' = f
           /\ cls' = [cls EXCEPT !.fields_dict =
                                 WriteThrough(@, IF f.ok THEN f.val ELSE <<>>)]
    /\ UNCHANGED <<form, text, html>>
    /\ UnchangedRouter

\* the values a list of choices allows
ChoiceValues(choices) == {None} \cup {StrV(choices[j]) : j \in 1..Len(choices)}

NextCodec ==
    \/ BuildClass
    \/ NewForm
    \/ \E i \in 1..Len(form) : \E v \in ValuesOf(form[i]) : Assign(i, v)
    \/ \E i \in 1..Len(form) : \E c \in ChoiceLists :
           \E v \in ChoiceValues(c) : AssignChoices(i, c, v)
    \/ SendMessage
    \/ \E k \in 1..MaxCut : Cut(k)
    \/ \E view \in {"text", "html"} : CutLine(view)
    \/ Decode

SpecCodec == InitCodec /\ [][NextCodec]_vars

-----------------------------------------------------------------------------
(* Renderer *)

Button(btn_text, callback_data) == [text |-> btn_text, callback_data |-> callback_data]

\* Field.make_button / BoolField.make_button: the button, or the KeyError of
\* val2repr[None]
make_button(f, callback_data) ==
    IF f.cls_ = "BoolField"
    THEN (IF needs_value(f) THEN Ok(Button(MISSING_VALUE_ICON \o <<" ">> \o f.label, callback_data))
          ELSE IF f.value = None THEN Raise("KeyError")
          ELSE Ok(Button(val2repr(f.value.b) \o <<" ">> \o f.label, callback_data)))
    ELSE Ok(Button(get_field_icon(f) \o <<" ">> \o f.label, callback_data))

\* markup.add(button) for a field that is not read-only
AddFieldRow(read_only, button, rest) ==
    IF read_only THEN rest
    ELSE IF ~button.ok THEN Raise(button.err)
    ELSE IF ~rest.ok THEN rest
    ELSE Ok(<<(<<button.val>>)>> \o rest.val)

\* the rows of one button each for the fields that are not read-only
RECURSIVE FieldRows(_, _)
FieldRows(class_, fields) ==
    IF fields = <<>> THEN Ok(<<>>)
    ELSE AddFieldRow(fields[1].read_only,
                     make_button(fields[1], make_edit_cb_data(class_.name, fields[1].name)),
                     FieldRows(class_, Tail(fields)))

\* a numbering that starts again in every row
NumberedWithinRow(rows, r) == 0

\* number of buttons in the rows before row r
RECURSIVE ButtonsBefore(_, _)
ButtonsBefore(rows, r) ==
    IF r <= 1 THEN 0 ELSE ButtonsBefore(rows, r - 1) + Len(rows[r - 1])

CustomRows(class_) ==
    [r \in 1..Len(class_.custom_buttons) |->
        [c \in 1..Len(class_.custom_buttons[r]) |->
            Button(class_.custom_buttons[r][c].text,
                   make_custom_button_cb_data(class_.name,
                       ButtonsBefore(class_.custom_buttons, r) + c - 1))]]

OkCancelRow(class_) ==
    <<Button(<<"OK">>, make_cb_data(class_.name, SUBMIT))>>
    \o (IF class_.cancel_callback
        THEN <<Button(<<"Cancel">>, make_cb_data(class_.name, CANCEL))>>
        ELSE <<>>)

\* the custom rows and the OK/Cancel row under the field rows
MarkupOf(class_, rows) ==
    IF ~rows.ok THEN Raise(rows.err)
    ELSE Ok(rows.val \o CustomRows(class_) \o <<OkCancelRow(class_)>>)

make_markup(class_, fields) == MarkupOf(class_, FieldRows(class_, fields))

\* InlineKeyboardMarkup(row_width).add(*buttons): rows of row_width buttons
RECURSIVE AddButtons(_, _)
AddButtons(buttons, row_width) ==
    IF buttons = <<>> THEN <<>>
    ELSE <<PyUpTo(buttons, row_width)>> \o AddButtons(PyFrom(buttons, row_width), row_width)

\* the keyboard of ChoiceField._handle_edit
ChoiceMarkup(class_, f) ==
    AddButtons([i \in 1..Len(f.choices) |->
                   Button((IF f.value = StrV(f.choices[i]) THEN <<"CHECK", " ">> ELSE <<>>)
                              \o f.choices[i],
                          make_field_handler_cb_data(class_.name, f.name, IntToStr(i - 1)))],
               f.row_width)
    \o <<(<<Button(<<"Cancel">>, make_cb_data(class_.name, DISPLAY_MAIN))>>)>>

\* all buttons of a keyboard
RECURSIVE Flatten(_)
Flatten(rows) == IF rows = <<>> THEN <<>> ELSE rows[1] \o Flatten(Tail(rows))

-----------------------------------------------------------------------------
(* Action router.  A handler works on a world w: the chat (form message, prompts),
   the bot's next-step handlers, and what the handler has done so far. *)

World(m, p, h) ==
    [msg |-> m, prompts |-> p, nsh |-> h, out |-> <<>>, exc |-> "", cb_form |-> <<>>,
     inst |-> <<>>]

\* the handler works on the form instance fields
Holds(w, fields) == [w EXCEPT !.inst = fields]

Say(w, call) == [w EXCEPT !.out = Append(@, call)]
Throw(w, e) == [w EXCEPT !.exc = e]

\* the message exists and can be edited or deleted
Editable(w, message_id) == w.msg.live /\ w.msg.id = message_id

\* BaseForm.close_form
close_form(w, message_id) ==
    IF Editable(w, message_id)
    THEN Say([w EXCEPT !.msg.markup = <<>>], "edit_message_reply_markup")
    ELSE Throw(Say(w, "edit_message_reply_markup"), "ApiException")

\* the message that shows the Markdown text md under the keyboard markup
Rendered(m, md, markup) ==
    [m EXCEPT !.text = TransportText(md), !.html = TransportHtml(md), !.markup = markup]

\* bot.send_message(chat_id, self.to_message(), reply_markup=self.make_markup(), ...)
SendForm(w, fields, markup) ==
    IF ~markup.ok THEN Throw(w, markup.err)
    ELSE Say([w EXCEPT !.msg = Rendered([id |-> w.msg.id + 1, live |-> TRUE, text |-> <<>>,
                                         html |-> <<>>, markup |-> <<>>],
                                        to_message(fields), markup.val)],
             "send_message")

\* bot.edit_message_text(self.to_message(), chat_id, message_id, reply_markup=...)
EditForm(w, fields, message_id, markup) ==
    IF ~markup.ok THEN Throw(w, markup.err)
    ELSE IF ~Editable(w, message_id) THEN Throw(Say(w, "edit_message_text"), "ApiException")
    ELSE Say([w EXCEPT !.msg = Rendered(w.msg, to_message(fields), markup.val)],
             "edit_message_text")

\* BaseForm.refresh
refresh(w, class_, fields, message_id, resend) ==
    IF resend
    THEN IF ~Editable(w, message_id) THEN Throw(Say(w, "delete_message"), "ApiException")
         ELSE SendForm(Say([w EXCEPT !.msg = [NoMessage EXCEPT !.id = w.msg.id]],
                           "delete_message"),
                       fields, make_markup(class_, fields))
    ELSE EditForm(w, fields, message_id, make_markup(class_, fields))

\* the closure `handler` of Field._handle_edit: the field, the form and the messages it
\* has captured
Continuation(field_name, fields, message_id, prompt) ==
    [field |-> field_name, form |-> fields, message_id |-> message_id, prompt |-> prompt]

\* Field._handle_edit: the prompt is sent and the continuation registered
Field_handle_edit(w, class_, fields, i, message_id) ==
    Say([w EXCEPT !.prompts = Append(@, "open"),
                  !.nsh = Append(@, Continuation(fields[i].name, fields, message_id,
                                                 Len(w.prompts) + 1))],
        "send_message:Send new value")

\* self.value = <new value>; form.refresh(chat_id, message_id)
SetAndRefresh(w, class_, fields, i, set, message_id) ==
    IF ~set.ok THEN Throw(w, set.err)
    ELSE refresh(Holds(w, [fields EXCEPT ![i] = set.val]), class_,
                 [fields EXCEPT ![i] = set.val], message_id, FALSE)

\* BoolField._handle_edit
BoolField_handle_edit(w, class_, fields, i, message_id) ==
    SetAndRefresh(w, class_, fields, i, SetValue(fields[i], PyNot(fields[i].value)),
                  message_id)

\* ChoiceField._handle_edit
ChoiceField_handle_edit(w, class_, fields, i, message_id) ==
    IF Editable(w, message_id)
    THEN Say([w EXCEPT !.msg.markup = ChoiceMarkup(class_, fields[i])],
             "edit_message_reply_markup")
    ELSE Throw(Say(w, "edit_message_reply_markup"), "ApiException")

\* field._handle_edit(self.bot, self, callback), by the class of the field
field_handle_edit(w, class_, fields, i, message_id) ==
    CASE fields[i].cls_ = "BoolField" -> BoolField_handle_edit(w, class_, fields, i, message_id)
      [] fields[i].cls_ \in {"ChoiceField", "DynamicChoiceField"} ->
            ChoiceField_handle_edit(w, class_, fields, i, message_id)
      [] OTHER -> Field_handle_edit(w, class_, fields, i, message_id)

\* s[i] with Python's index rules: negative from the end, IndexError outside
PyIndexOk(s, i) == 0 - Len(s) <= i /\ i < Len(s)
PyIndex(s, i) == IF i < 0 THEN s[Len(s) + i + 1] ELSE s[i + 1]

\* self.fields_dict.get(field_name): the index of the field (0 for None)
FieldNamed(fields, field_name) ==
    IF Len(field_name) = 1 THEN FieldIndex(fields, field_name[1]) ELSE 0

\* the body of handle_edit once the field is looked up: None is acknowledged and
\* then used
EditField(w, class_, fields, i, message_id) ==
    IF i = 0
    THEN Throw(Say(w, "answer_callback_query:Trying to edit unknown field!"),
               "AttributeError")
    ELSE field_handle_edit(w, class_, fields, i, message_id)

\* BaseForm.handle_edit
handle_edit(w, class_, fields, parts, message_id) ==
    EditField(w, class_, fields, FieldNamed(fields, PyIndex(parts, -1)), message_id)

\* self.submit_callback(cb) after close_form
Submitted(w, fields) ==
    IF w.exc # "" THEN w ELSE [Say(w, "submit_callback") EXCEPT !.cb_form = fields]

\* a submit that calls the collaborator before it closes the form
SubmitThenClose(w, fields, ve, message_id) ==
    IF ~ve.ok
    THEN Say(w, "answer_callback_query:Fill all required fields first!")
    ELSE close_form([Say(w, "submit_callback") EXCEPT !.cb_form = fields], message_id)

\* the body of handle_submit once validate has returned or raised ve
SubmitValidated(w, fields, ve, message_id) ==
    IF ~ve.ok
    THEN Say(w, IF ve.missing_fields # <<>>
                THEN "answer_callback_query:Fill all required fields first!"
                ELSE "answer_callback_query:Validation error!")
    ELSE Submitted(close_form(w, message_id), fields)

\* BaseForm.handle_submit
handle_submit(w, class_, fields, parts, message_id) ==
    SubmitValidated(w, fields, validate(fields), message_id)

\* if self.cancel_callback is not None: self.cancel_callback(cb)
Cancelled(w, class_, fields) ==
    IF w.exc # "" THEN w
    ELSE IF class_.cancel_callback THEN [Say(w, "cancel_callback") EXCEPT !.cb_form = fields]
    ELSE w

\* BaseForm.handle_cancel
handle_cancel(w, class_, fields, parts, message_id) ==
    Cancelled(close_form(w, message_id), class_, fields)

\* BaseForm.handle_display_main
handle_display_main(w, class_, fields, parts, message_id) ==
    refresh(w, class_, fields, message_id, FALSE)

\* a selection that counts the choices from one
ChooseOneBased(w, class_, fields, i, choice_idx, message_id) ==
    IF ~choice_idx.ok THEN Throw(w, "ValueError")
    ELSE IF ~PyIndexOk(fields[i].choices, choice_idx.n) THEN Throw(w, "IndexError")
    ELSE SetAndRefresh(w, class_, fields, i,
                       SetValue(fields[i], StrV(PyIndex(fields[i].choices, choice_idx.n - 1))),
                       message_id)

\* self.value = self.choices[choice_idx]; form.refresh(...)
Choose(w, class_, fields, i, choice_idx, message_id) ==
    IF ~choice_idx.ok THEN Throw(w, "ValueError")
    ELSE IF ~PyIndexOk(fields[i].choices, choice_idx.n) THEN Throw(w, "IndexError")
    ELSE SetAndRefresh(w, class_, fields, i,
                       SetValue(fields[i], StrV(PyIndex(fields[i].choices, choice_idx.n))),
                       message_id)

\* ChoiceField.custom_handler
ChoiceField_custom_handler(w, class_, fields, i, parts, message_id) ==
    IF ~PyIndexOk(parts, 4) THEN Throw(w, "IndexError")
    ELSE Choose(w, class_, fields, i, ParseInt(parts[5]), message_id)

\* field.custom_handler(form=self, callback=cb), by the class of the field
custom_handler(w, class_, fields, i, parts, message_id) ==
    IF i = 0 THEN Throw(w, "KeyError")
    ELSE IF fields[i].cls_ \in {"ChoiceField", "DynamicChoiceField"}
    THEN ChoiceField_custom_handler(w, class_, fields, i, parts, message_id)
    ELSE w

\* BaseForm.pass_to_field_handler
pass_to_field_handler(w, class_, fields, parts, message_id) ==
    IF ~PyIndexOk(parts, 3) THEN Throw(w, "IndexError")
    ELSE custom_handler(w, class_, fields, FieldNamed(fields, parts[4]), parts, message_id)

\* button_options.callback(self, cb); if button_options.closes_form: self.close_form(...)
CustomCallback(w, fields, button_options, message_id) ==
    IF button_options.closes_form
    THEN close_form([Say(w, button_options.callback) EXCEPT !.cb_form = fields], message_id)
    ELSE [Say(w, button_options.callback) EXCEPT !.cb_form = fields]

\* [button for button_row in self.custom_buttons for button in button_row][button_idx]
CustomButtonAt(w, fields, buttons, button_idx, message_id) ==
    IF ~button_idx.ok THEN Throw(w, "ValueError")
    ELSE IF ~PyIndexOk(buttons, button_idx.n) THEN Throw(w, "IndexError")
    ELSE CustomCallback(w, fields, PyIndex(buttons, button_idx.n), message_id)

\* BaseForm.handle_custom_button
handle_custom_button(w, class_, fields, parts, message_id) ==
    IF ~PyIndexOk(parts, 3) THEN Throw(w, "IndexError")
    ELSE CustomButtonAt(w, fields, Flatten(class_.custom_buttons), ParseInt(parts[4]),
                        message_id)

\* the keys of action_to_handler
Actions == {EDIT, SUBMIT, CANCEL, DISPLAY_MAIN, CUSTOM_BUTTON, FIELD_HANDLER}

\* action_to_handler[action](callback)
Dispatch(w, class_, fields, parts, action, message_id) ==
    CASE action = EDIT -> handle_edit(w, class_, fields, parts, message_id)
      [] action = SUBMIT -> handle_submit(w, class_, fields, parts, message_id)
      [] action = CANCEL -> handle_cancel(w, class_, fields, parts, message_id)
      [] action = DISPLAY_MAIN -> handle_display_main(w, class_, fields, parts, message_id)
      [] action = CUSTOM_BUTTON -> handle_custom_button(w, class_, fields, parts, message_id)
      [] action = FIELD_HANDLER -> pass_to_field_handler(w, class_, fields, parts, message_id)
      [] OTHER -> Throw(w, "KeyError")

\* a dispatch that acknowledges an unknown action and goes on to look its handler up
DispatchAfterAck(w, class_, fields, parts, message_id) ==
    IF ~PyIndexOk(parts, 2) THEN Throw(w, "IndexError")
    ELSE IF parts[3] \notin Actions
    THEN Throw(Say(w, "answer_callback_query:Unknown callback data!"), "KeyError")
    ELSE Dispatch(w, class_, fields, parts, parts[3], message_id)

\* parts = callback.data.split('/'); action = parts[2]; an action that is no key of
\* action_to_handler is acknowledged and nothing else is done
DispatchParts(w, class_, fields, parts, message_id) ==
    IF ~PyIndexOk(parts, 2) THEN Throw(w, "IndexError")
    ELSE IF parts[3] \notin Actions
    THEN Say(w, "answer_callback_query:Unknown callback data!")
    ELSE Dispatch(w, class_, fields, parts, parts[3], message_id)

\* BaseForm.handle_cb
handle_cb(w, class_, fields, data, message_id) ==
    DispatchParts(w, class_, fields, Split(data, <<"/">>), message_id)

\* handle_cb of the form that from_message has built
HandleDecoded(w, class_, f, data) ==
    IF ~f.ok THEN Throw(w, f.err)
    ELSE handle_cb(Holds(w, f.val), class_, f.val, data, w.msg.id)

\* the callback_query_handler registered by FormMeta.__new__:
\* class_.handle_cb(class_.from_message(callback.message), callback)
handler(w, class_, data) ==
    HandleDecoded(w, class_, from_message(class_, w.msg.text, w.msg.html), data)

\* a continuation that renders the form again whether the text was accepted or not
SetFromTextAnyway(w, class_, h, i, set) ==
    IF w.exc # "" THEN w
    ELSE refresh(w, class_, IF set.ok THEN [h.form EXCEPT ![i] = set.val] ELSE h.form,
                 h.message_id, TRUE)

\* try: self.value = self.from_str_value(msg.text) ... form.refresh(..., resend=True)
SetFromText(w, class_, h, i, set) ==
    IF w.exc # "" THEN w
    ELSE IF ~set.ok THEN Say(w, "send_message:error")
    ELSE refresh(Holds(w, [h.form EXCEPT ![i] = set.val]), class_,
                 [h.form EXCEPT ![i] = set.val], h.message_id, TRUE)

\* bot.edit_message_reply_markup(sent_msg.chat.id, sent_msg.message_id, ...): the
\* keyboard of the prompt is removed
ClosePrompt(w, prompt) ==
    IF w.prompts[prompt] = "deleted"
    THEN Throw(Say(w, "edit_message_reply_markup"), "ApiException")
    ELSE Say([w EXCEPT !.prompts[prompt] = "closed"], "edit_message_reply_markup")

\* the closure `handler` of Field._handle_edit, run on a text message
next_step(w, class_, h, msg_text) ==
    SetFromText(ClosePrompt(w, h.prompt), class_, h, FieldIndex(h.form, h.field),
                SetConverted(h.form[FieldIndex(h.form, h.field)],
                             from_str_value(h.form[FieldIndex(h.form, h.field)], msg_text)))

\* every handler registered for the chat runs on the message, in registration order;
\* the first exception is the one reported
RECURSIVE run_next_steps(_, _, _, _)
AfterStep(w, w1, class_, handlers, msg_text) ==
    run_next_steps([w1 EXCEPT !.exc = IF w.exc # "" THEN w.exc ELSE w1.exc],
                   class_, handlers, msg_text)

run_next_steps(w, class_, handlers, msg_text) ==
    IF handlers = <<>> THEN w
    ELSE AfterStep(w, next_step([w EXCEPT !.exc = ""], class_, handlers[1], msg_text),
                   class_, Tail(handlers), msg_text)

-----------------------------------------------------------------------------
(* Chat scenario: a form is built and sent; callbacks of its buttons, callbacks with
   any other data, free-text messages and the prompts' Cancel button follow. *)

\* UserForm as docs/examples/example.py declares it, followed by the variants
ExampleOrder == <<name_field, username_field, age_field, is_admin_field, sex_field,
                  day_of_month_field, agree_field, flag_field, nick_field, level_field>>

\* the forms of the chat scenario: MaxFields consecutive fields of the example, the
\* first field following the last
ChatDeclarations ==
    {[i \in 1..Min(MaxFields, Len(ExampleOrder)) |->
         ExampleOrder[((k + i - 2) % Len(ExampleOrder)) + 1]] : k \in 1..Len(ExampleOrder)}

CustomButton(btn_text, callback, closes_form) ==
    [text |-> btn_text, callback |-> callback, closes_form |-> closes_form]

SingleButton(b) == [single |-> TRUE, iterable |-> FALSE, button |-> b, row |-> <<>>]
ButtonRow(row) == [single |-> FALSE, iterable |-> TRUE, button |-> CustomButton(<<>>, "-", FALSE),
                   row |-> row]

\* a form without cancel_callback and custom_buttons, and one with both
ChatConfigs ==
    {[cancel_callback |-> FALSE, custom_buttons |-> <<>>],
     [cancel_callback |-> TRUE,
      custom_buttons |->
          <<SingleButton(CustomButton(<<"Help">>, "help_callback", FALSE)),
            ButtonRow(<<CustomButton(<<"Save">>, "save_callback", TRUE),
                        CustomButton(<<"More">>, "more_callback", FALSE)>>)>>]}

Init ==
    /\ \E d \in ChatDeclarations, c \in ChatConfigs :
           cls = ClassBody(FormName, d, c.cancel_callback, c.custom_buttons)
    /\ pc = "declared"
    /\ form = <<>>
    /\ text = <<>>
    /\ html = <<>>
    /\ decoded = NotDecoded
    /\ RouterIdle

UnchangedCodec == UNCHANGED <<cls, form, text, html, decoded>>

\* the world a handler leaves becomes the state; the schema shows what the handler
\* wrote to those fields of its form instance that are the schema's own objects
Becomes(w) ==
    /\ Len(w.prompts) <= MaxPrompts
    /\ cls' = [cls EXCEPT !.fields_dict = WriteThrough(@, w.inst)]
    /\ msg' = w.msg
    /\ prompts' = w.prompts
    /\ next_step_handlers' = w.nsh
    /\ out' = w.out
    /\ exc' = w.exc
    /\ cb_form' = w.cb_form

\* BaseForm.send_form
send_form ==
    /\ pc = "new"
    /\ \E w \in {SendForm(World(NoMessage, <<>>, <<>>), form, make_markup(cls, form))} :
           /\ Becomes(w)
           /\ pc' = IF w.exc = "" THEN "chat" ELSE "send_failed"
    /\ last' = [kind |-> "send_form", data |-> <<>>, form |-> form]
    /\ UNCHANGED <<form, text, html, decoded>>

\* the form a decoding has built (no form when it raised)
FormOf(f) == IF f.ok THEN f.val ELSE <<>>

\* the filter of the callback_query_handler that FormMeta.__new__ registers for the form
\* type called name: lambda cb: cb.data.startswith(make_form_prefix(name))
callback_filter(name, data) == StartsWith(data, make_form_prefix(name))

\* a callback query on the form message reaches the handler of the form
callback_query(data) ==
    /\ pc = "chat"
    /\ msg.live
    /\ callback_filter(cls.name, data)
    /\ \E w \in {handler(World(msg, prompts, next_step_handlers), cls, data)} : Becomes(w)
    /\ last' = [kind |-> "callback", data |-> data,
                form |-> FormOf(from_message(cls, msg.text, msg.html))]
    /\ UNCHANGED pc
    /\ UNCHANGED <<form, text, html, decoded>>

\* the callback data of the buttons on the form message
ButtonData == {Flatten(msg.markup)[i].callback_data : i \in 1..Len(Flatten(msg.markup))}

FieldNames == {cls.fields_dict[i].name : i \in 1..Len(cls.fields_dict)}

\* callback data that no button of the form's own keyboard carries: no action, an
\* unknown action, EDIT and FIELD_HANDLER for any field name, indexes outside the lists
OtherData ==
    {make_form_prefix(cls.name), make_cb_data(cls.name, <<"xx">>)}
    \cup {make_edit_cb_data(cls.name, n) : n \in FieldNames \cup {"nosuch"}}
    \cup {make_field_handler_cb_data(cls.name, n, IntToStr(MaxChoices)) :
             n \in FieldNames \cup {"nosuch"}}
    \cup {make_custom_button_cb_data(cls.name, Len(Flatten(cls.custom_buttons)))}

\* the user presses a button of the form's keyboard
PressButton == pc = "chat" /\ \E data \in ButtonData : callback_query(data)

\* a callback arrives whose data is not on the keyboard (an old keyboard, another client)
OtherCallback == pc = "chat" /\ \E data \in OtherData \ ButtonData : callback_query(data)

\* the user sends a text message: the next-step handlers of the chat are taken and run
text_message(t) ==
    /\ pc = "chat"
    /\ \E w \in {run_next_steps(World(msg, prompts, <<>>), cls, next_step_handlers, t)} :
           Becomes(w)
    /\ last' = [kind |-> "text", data |-> t, form |-> <<>>]
    /\ UNCHANGED pc
    /\ UNCHANGED <<form, text, html, decoded>>

\* a Cancel button that deletes the prompt and leaves the continuations registered
cancel_keeps_handlers(i) ==
    /\ pc = "chat"
    /\ prompts[i] = "open"
    /\ msg' = msg
    /\ prompts' = [prompts EXCEPT ![i] = "deleted"]
    /\ next_step_handlers' = next_step_handlers
    /\ out' = <<"delete_message">>
    /\ exc' = ""
    /\ cb_form' = <<>>
    /\ last' = [kind |-> "prompt_cancel", data |-> CANCEL_CB_DATA, form |-> <<>>]
    /\ UNCHANGED pc
    /\ UnchangedCodec

\* the callback_query_handler for CANCEL_CB_DATA: the Cancel button of prompt i
cancel(i) ==
    /\ pc = "chat"
    /\ prompts[i] = "open"
    /\ msg' = msg
    /\ prompts' = [prompts EXCEPT ![i] = "deleted"]
    /\ next_step_handlers' = <<>>
    /\ out' = <<"delete_message">>
    /\ exc' = ""
    /\ cb_form' = <<>>
    /\ last' = [kind |-> "prompt_cancel", data |-> CANCEL_CB_DATA, form |-> <<>>]
    /\ UNCHANGED pc
    /\ UnchangedCodec

Next ==
    \/ BuildClass
    \/ NewForm
    \/ \E i \in 1..Len(form) : AssignChoices(i, LongestChoiceList, None)
    \/ send_form
    \/ PressButton
    \/ OtherCallback
    \/ \E t \in Texts : text_message(t)
    \/ \E i \in 1..Len(prompts) : cancel(i)

Spec == Init /\ [][Next]_vars

-----------------------------------------------------------------------------
(* Claims about the codec and the schema (checked under SpecCodec) *)

\* the state of a field that a user of the form can observe
SameField(f, g) == f.name = g.name /\ f.value = g.value /\ f.choices = g.choices

\* C1: round trip.  For every schema and every assignment of values of the declared
\* types (or None), from_message of the message that to_message produced yields a form
\* whose every field has the same value and the same choices as the original.
C1_RoundTrip ==
    pc = "decoded" =>
        /\ decoded.ok
        /\ Len(decoded.val) = Len(form)
        /\ \A i \in 1..Len(form) : SameField(decoded.val[i], form[i])

\* C2: dynamic choice survival.  A dynamic-choice field that was assigned any list of
\* choices and a value from it (or None) is decoded with exactly that list, in the same
\* order, and the same value.
C2_DynamicChoiceSurvival ==
    (pc = "decoded" /\ last.kind = "assign_choices") =>
        \A i \in 1..Len(form) :
            form[i].cls_ = "DynamicChoiceField" =>
                /\ decoded.ok
                /\ decoded.val[i].choices = form[i].choices
                /\ decoded.val[i].value = form[i].value

LastLine(t) == SplitLines(t)[Len(SplitLines(t))]

\* C3: trailing absent value.  When the last field of the schema is None and the
\* transport trimmed the message, so that the final line ends with the separator minus
\* its trailing space, from_message resolves the final line to that field with value
\* None; and whenever the final line holds neither the separator nor the trimmed
\* separator, from_message fails.
C3_TrailingAbsentValue ==
    /\ (pc = "decoded" /\ form[Len(form)].value = None) =>
            /\ Find(LastLine(text), separator) = -1
            /\ Find(LastLine(text), Strip(separator)) = Len(LastLine(text)) - 1
            /\ decoded.ok
            /\ decoded.val[Len(form)].name = form[Len(form)].name
            /\ decoded.val[Len(form)].value = None
    /\ (pc \in {"decoded", "decoded_cut"} /\ SplitLines(text) # <<>>
            /\ Find(LastLine(text), separator) = -1
            /\ Find(LastLine(text), Strip(separator)) = -1) =>
            ~decoded.ok

\* a message whose last field is None was trimmed and decoded, after a field with a value
C3_Witness ==
    /\ pc = "decoded"
    /\ Len(form) = MaxFields
    /\ form[Len(form)].value = None
    /\ form[1].value # None
    /\ text = RStrip(text)
    /\ Find(LastLine(text), separator) = -1
    /\ decoded.ok
    /\ decoded.val[Len(form)].value = None

\* C4: label uniqueness.  A schema in which two fields have the same label is not
\* built: in every built schema the label index has exactly one entry per field.
C4_LabelUniqueness ==
    pc = "built" =>
        /\ \A i, j \in 1..Len(cls.fields_dict) :
               i # j => cls.fields_dict[i].label # cls.fields_dict[j].label
        /\ Cardinality(DOMAIN cls.label_to_field) = Len(cls.fields_dict)

-----------------------------------------------------------------------------
(* Claims about the action router (checked under Spec).  An event e is the record kept
   in `last`: its kind, the callback data and the form decoded from the message it
   arrived on. *)

Parts(data) == Split(data, <<"/">>)

\* e is a callback that reached handle_cb with a decoded form and an action code
Dispatched(e) == e.kind = "callback" /\ e.form # <<>> /\ Len(Parts(e.data)) >= 3

HasAction(e, action) == Dispatched(e) /\ Parts(e.data)[3] = action

RequiredAbsent(fields) ==
    {i \in 1..Len(fields) : fields[i].required /\ fields[i].value = None}

\* names are exactly the names of the required and absent fields, in schema order
ExactlyRequiredAbsent(names, fields) ==
    /\ Len(names) = Cardinality(RequiredAbsent(fields))
    /\ \A k \in 1..Len(names) : FieldIndex(fields, names[k]) \in RequiredAbsent(fields)
    /\ \A a, b \in 1..Len(names) :
           a < b => FieldIndex(fields, names[a]) < FieldIndex(fields, names[b])

\* C5: submit gating.  A SUBMIT on a form with a required field absent raises
\* ValidationError whose missing fields are exactly the required and absent fields, in
\* schema order; the handler only acknowledges: the message (text and keyboard) stays
\* as it is and the submit callback is not called.
C5_SubmitGating ==
    [][(HasAction(last', SUBMIT) /\ RequiredAbsent(last'.form) # {}) =>
            /\ ~validate(last'.form).ok
            /\ validate(last'.form).err = "ValidationError"
            /\ ExactlyRequiredAbsent(validate(last'.form).missing_fields, last'.form)
            /\ out' = <<"answer_callback_query:Fill all required fields first!">>
            /\ exc' = ""
            /\ cb_form' = <<>>
            /\ msg' = msg]_vars

\* a SUBMIT was refused on a form with two required fields absent
C5_Witness ==
    /\ HasAction(last, SUBMIT)
    /\ Cardinality(RequiredAbsent(last.form)) >= 2
    /\ out = <<"answer_callback_query:Fill all required fields first!">>
    /\ msg.markup # <<>>

\* e is an EDIT callback that names the boolean field i of the decoded form
TogglesField(e, i) ==
    /\ HasAction(e, EDIT)
    /\ i = FieldNamed(e.form, PyIndex(Parts(e.data), -1))
    /\ i # 0
    /\ e.form[i].cls_ = "BoolField"

\* the text of the button of field i on the keyboard of message m
IconOf(m, class_, f) ==
    {Flatten(m.markup)[k].text :
        k \in {k \in 1..Len(Flatten(m.markup)) :
                  Flatten(m.markup)[k].callback_data = make_edit_cb_data(class_.name, f.name)}}

\* C6: boolean toggle twice.  For a boolean field that is True, False or absent, two
\* consecutive EDIT toggles restore its value and the icon on its button.
C6_BoolToggleTwice ==
    [][\A i \in 1..Len(last.form) :
          (TogglesField(last, i) /\ exc = "" /\ last'.kind = "callback"
              /\ last'.data = last.data /\ exc' = "") =>
            /\ FormOf(from_message(cls, msg'.text, msg'.html)) # <<>>
            /\ FormOf(from_message(cls, msg'.text, msg'.html))[i].value = last.form[i].value
            /\ IconOf(msg', cls, last.form[i])
                   = {make_button(last.form[i],
                                  make_edit_cb_data(cls.name, last.form[i].name)).val.text}]_vars

\* C7: unknown action.  A callback whose action code is none of ed, ok, ca, dm, cb, fh
\* is acknowledged with an error and nothing else: no handler runs, no collaborator is
\* called, the message text and keyboard, the prompts and the registered continuations
\* stay as they are.
C7_UnknownAction ==
    [][(Dispatched(last') /\ Parts(last'.data)[3] \notin Actions) =>
            /\ out' = <<"answer_callback_query:Unknown callback data!">>
            /\ exc' = ""
            /\ cb_form' = <<>>
            /\ msg' = msg
            /\ prompts' = prompts
            /\ next_step_handlers' = next_step_handlers]_vars

\* a callback with the action code xx was acknowledged on a form with its keyboard
C7_Witness ==
    /\ Dispatched(last)
    /\ Parts(last.data)[3] = <<"xx">>
    /\ out = <<"answer_callback_query:Unknown callback data!">>
    /\ msg.markup # <<>>

\* C8: submit success.  When no required field is absent, SUBMIT removes the keyboard,
\* then calls the submit callback once with the decoded form; the text stays and no
\* button of the form is left.
C8_SubmitSuccess ==
    [][(HasAction(last', SUBMIT) /\ RequiredAbsent(last'.form) = {}) =>
            /\ out' = <<"edit_message_reply_markup", "submit_callback">>
            /\ exc' = ""
            /\ cb_form' = FormOf(from_message(cls, msg.text, msg.html))
            /\ msg' = [msg EXCEPT !.markup = <<>>]
            /\ Flatten(msg'.markup) = <<>>]_vars

\* a form with all its required fields set was submitted
C8_Witness ==
    /\ HasAction(last, SUBMIT)
    /\ out = <<"edit_message_reply_markup", "submit_callback">>
    /\ \E i \in 1..Len(cb_form) : cb_form[i].required /\ cb_form[i].value # None
    /\ msg.live
    /\ msg.markup = <<>>

\* C9: CANCEL releases the pending edit.  After CANCEL is handled while a free-text edit
\* is pending, the keyboard is removed, the cancel callback (if configured) is called
\* and no continuation stays registered; the next text message leaves the form message
\* as it is.
C9_CancelReleasesPendingEdit ==
    [][/\ (HasAction(last', CANCEL) /\ next_step_handlers # <<>>) =>
            /\ msg'.markup = <<>>
            /\ out' = <<"edit_message_reply_markup">>
                          \o (IF cls.cancel_callback THEN <<"cancel_callback">> ELSE <<>>)
            /\ next_step_handlers' = <<>>
       /\ (HasAction(last, CANCEL) /\ last'.kind = "text") => msg' = msg]_vars

\* C10: EDIT precondition.  An EDIT callback that names a read-only field changes
\* nothing and registers no continuation; one that names an unknown field ends with the
\* acknowledgment only.
C10_EditPrecondition ==
    [][\A i \in 0..Len(last'.form) :
          (HasAction(last', EDIT) /\ i = FieldNamed(last'.form, PyIndex(Parts(last'.data), -1))) =>
            /\ i = 0 =>
                 /\ out' = <<"answer_callback_query:Trying to edit unknown field!">>
                 /\ exc' = ""
                 /\ msg' = msg
                 /\ next_step_handlers' = next_step_handlers
            /\ (i # 0 /\ last'.form[i].read_only) =>
                 /\ msg' = msg
                 /\ prompts' = prompts
                 /\ next_step_handlers' = next_step_handlers]_vars

\* the custom buttons of the schema, in declaration order
CustomButtons == {Flatten(cls.custom_buttons)[k] : k \in 1..Len(Flatten(cls.custom_buttons))}

\* C11: custom buttons.  A CUSTOM_BUTTON callback whose data is on a button of the
\* keyboard that make_markup built calls the callback of the schema's button with that
\* text, once, with the decoded form; afterwards the keyboard is removed if the button
\* closes the form and the message stays as it is if it does not.
C11_CustomButton ==
    [][\A k \in 1..Len(Flatten(msg.markup)) : \A b \in CustomButtons :
          (/\ HasAction(last', CUSTOM_BUTTON)
           /\ last'.data = Flatten(msg.markup)[k].callback_data
           /\ Flatten(msg.markup)[k].text = b.text) =>
            /\ out' = <<b.callback>>
                         \o (IF b.closes_form THEN <<"edit_message_reply_markup">> ELSE <<>>)
            /\ exc' = ""
            /\ cb_form' = last'.form
            /\ msg' = IF b.closes_form THEN [msg EXCEPT !.markup = <<>>] ELSE msg]_vars

\* the second button of a row, which closes the form, was pressed
C11_Witness ==
    /\ HasAction(last, CUSTOM_BUTTON)
    /\ out = <<"save_callback", "edit_message_reply_markup">>
    /\ msg.live
    /\ msg.markup = <<>>

\* the fields that get a button, in schema order
EditableFields(fields) == SelectSeq(fields, LAMBDA f : ~f.read_only)

\* the callback data and the texts of a keyboard, row by row
DataRows(markup) ==
    [r \in 1..Len(markup) |-> [c \in 1..Len(markup[r]) |-> markup[r][c].callback_data]]
TextRows(markup) ==
    [r \in 1..Len(markup) |-> [c \in 1..Len(markup[r]) |-> markup[r][c].text]]

\* markup is the main keyboard of the form: a row with one EDIT button for every field
\* that is not read-only, in schema order, then the custom rows as declared, then the
\* row of OK and, with a cancel callback, Cancel
MainLayout(markup, class_, fields) ==
    /\ Len(markup) = Len(EditableFields(fields)) + Len(class_.custom_buttons) + 1
    /\ DataRows(SubSeq(markup, 1, Len(EditableFields(fields))))
         = [i \in 1..Len(EditableFields(fields)) |->
               <<make_edit_cb_data(class_.name, EditableFields(fields)[i].name)>>]
    /\ TextRows(SubSeq(markup, Len(EditableFields(fields)) + 1, Len(markup) - 1))
         = [r \in 1..Len(class_.custom_buttons) |->
               [c \in 1..Len(class_.custom_buttons[r]) |-> class_.custom_buttons[r][c].text]]
    /\ DataRows(<<markup[Len(markup)]>>)
         = <<(<<make_cb_data(class_.name, SUBMIT)>>
              \o (IF class_.cancel_callback THEN <<make_cb_data(class_.name, CANCEL)>>
                  ELSE <<>>))>>

\* C12: renderer layout.  Sending a form, and rendering it again from its message
\* (DISPLAY_MAIN), succeeds and leaves the main keyboard on the message, whatever the
\* values of the fields are.
C12_RendererLayout ==
    [][(last'.kind = "send_form" \/ HasAction(last', DISPLAY_MAIN)) =>
            /\ exc' = ""
            /\ msg'.live
            /\ MainLayout(msg'.markup, cls, last'.form)]_vars

\* the field that the continuation h edits
FieldOf(h) == h.form[FieldIndex(h.form, h.field)]

\* the text t is not a value of the field that the continuation h edits
CastFails(h, t) == ~SetConverted(FieldOf(h), from_str_value(FieldOf(h), t)).ok

\* C13: free-text edit failure.  When the text sent in reply to the pending edit prompts
\* is not a value of their fields, every prompt is closed and an error is sent for it;
\* the form message stays as it is (not deleted, not sent again, every field with its
\* value) and no continuation stays registered.
C13_FreeTextFailure ==
    [][(/\ last'.kind = "text"
        /\ next_step_handlers # <<>>
        /\ \A k \in 1..Len(next_step_handlers) : CastFails(next_step_handlers[k], last'.data)) =>
            /\ out' = Flatten([k \in 1..Len(next_step_handlers) |->
                                  <<"edit_message_reply_markup", "send_message:error">>])
            /\ exc' = ""
            /\ msg' = msg
            /\ next_step_handlers' = <<>>]_vars

\* a text that is no integer was sent in reply to the prompt of an integer field
C13_Witness ==
    /\ last.kind = "text"
    /\ last.data = <<"a", "_", "b">>
    /\ out = <<"edit_message_reply_markup", "send_message:error">>
    /\ prompts = <<"closed">>
    /\ msg.live
    /\ msg.markup # <<>>
    /\ next_step_handlers = <<>>

\* C14: no unhandled failure.  Every callback that reaches the handler of the form ends
\* without an exception leaving the handler.
C14_NoUnhandledFailure ==
    [][last'.kind = "callback" => exc' = ""]_vars

\* the value of f is None or of the declared type, is not None when f is not None-able,
\* and needs_value tells whether f is required and None
FieldInvariant(f) ==
    /\ f.value.k \in {"none", f.type_}
    /\ f.value \in {None, StrV(f.value.s), IntV(f.value.n), BoolV(f.value.b)}
    /\ ~f.noneable => f.value # None
    /\ needs_value(f) <=> (f.required /\ f.value = None)

FormInvariant(fields) == \A i \in 1..Len(fields) : FieldInvariant(fields[i])

\* C15: field value invariant.  Every form instance of the program (the one constructed
\* and assigned to, the one decoded from a message, the one a handler worked on, the one
\* handed to a collaborator, the ones the pending continuations hold, and the one the
\* form message decodes to) satisfies the field invariant in every field.
C15_FieldValueInvariant ==
    /\ FormInvariant(form)
    /\ FormInvariant(FormOf(decoded))
    /\ FormInvariant(last.form)
    /\ FormInvariant(cb_form)
    /\ \A k \in 1..Len(next_step_handlers) : FormInvariant(next_step_handlers[k].form)
    /\ msg.live => FormInvariant(FormOf(from_message(cls, msg.text, msg.html)))

\* a form with a field that is not None-able was assigned to, sent and decoded
C15_Witness ==
    /\ pc = "decoded"
    /\ decoded.ok
    /\ \E i, j \in 1..Len(form) :
           /\ ~form[i].noneable
           /\ decoded.val[i].value = IntV(7)
           /\ form[j].required
           /\ decoded.val[j].value = None
           /\ needs_value(decoded.val[j])

\* the form that the message m decodes to
DecodedFrom(m) == FormOf(from_message(cls, m.text, m.html))

\* C16: no lost update.  When the reply to a single pending edit prompt is a value of its
\* field, the form rendered afterwards decodes to the form of the latest message with
\* only the edited field changed: every other field has the value and the choices that
\* the message showed just before the reply.
C16_NoLostUpdate ==
    [][(/\ last'.kind = "text"
        /\ Len(next_step_handlers) = 1
        /\ ~CastFails(next_step_handlers[1], last'.data)
        /\ msg.live
        /\ DecodedFrom(msg) # <<>>) =>
            /\ msg'.live
            /\ Len(DecodedFrom(msg')) = Len(DecodedFrom(msg))
            /\ \A i \in 1..Len(DecodedFrom(msg)) :
                   DecodedFrom(msg)[i].name # next_step_handlers[1].field =>
                       SameField(DecodedFrom(msg')[i], DecodedFrom(msg)[i])]_vars

\* the value that the text t gives the field of the continuation h
ValueFromText(h, t) == SetConverted(FieldOf(h), from_str_value(FieldOf(h), t)).val.value

\* C17: free-text race.  When two edits of different editable fields of the form are pending and
\* a text arrives that is a value of the field registered last, the form rendered
\* afterwards shows the text in the field registered last and the earlier field with the
\* value it had before.
C17_FreeTextRace ==
    [][(/\ last'.kind = "text"
        /\ Len(next_step_handlers) = 2
        /\ next_step_handlers[1].field # next_step_handlers[2].field
        /\ ~FieldOf(next_step_handlers[1]).read_only
        /\ ~FieldOf(next_step_handlers[2]).read_only
        /\ ~CastFails(next_step_handlers[2], last'.data)
        /\ msg.live
        /\ DecodedFrom(msg) # <<>>) =>
            /\ msg'.live
            /\ DecodedFrom(msg') # <<>>
            /\ DecodedFrom(msg')[FieldIndex(DecodedFrom(msg), next_step_handlers[2].field)].value
                 = ValueFromText(next_step_handlers[2], last'.data)
            /\ DecodedFrom(msg')[FieldIndex(DecodedFrom(msg), next_step_handlers[1].field)].value
                 = DecodedFrom(msg)[FieldIndex(DecodedFrom(msg),
                                               next_step_handlers[1].field)].value]_vars

\* the form types of a program that declares a form called User beside UserForm
RegisteredNames == {<<"User">>, FormName}

\* C18: routing by form name.  A callback whose form-name segment is F passes the filter
\* of the handler of form type F and of no other registered form type.
C18_RoutingByFormName ==
    [][(last'.kind = "callback" /\ Len(Parts(last'.data)) >= 2) =>
            \A n \in RegisteredNames :
                callback_filter(n, last'.data) <=> n = Parts(last'.data)[2]]_vars

\* C19: line-count check.  Decoding a message whose plain-text view and markup view
\* differ in their number of lines fails.
C19_LineCountCheck ==
    (pc = "decoded_cut_line" /\ Len(SplitLines(text)) # Len(SplitLines(html))) => ~decoded.ok

\* the value of the choice field f is None or one of its choices
ValueIsChoice(f) == f.value = None \/ \E j \in 1..Len(f.choices) : f.value = StrV(f.choices[j])

\* C20: choice validation on decode.  In every form that from_message has built, the
\* value of every choice field and dynamic-choice field is None or one of the field's
\* choices.
C20_ChoiceValidation ==
    (pc \in {"decoded", "decoded_cut", "decoded_cut_line"} /\ decoded.ok) =>
        \A i \in 1..Len(decoded.val) :
            decoded.val[i].cls_ \in {"ChoiceField", "DynamicChoiceField"} =>
                ValueIsChoice(decoded.val[i])

\* e is a FIELD_HANDLER callback that names the choice field i of the decoded form and
\* carries the index n of one of its choices
SelectsChoice(e, i, n) ==
    /\ HasAction(e, FIELD_HANDLER)
    /\ Len(Parts(e.data)) = 5
    /\ i = FieldNamed(e.form, Parts(e.data)[4])
    /\ i # 0
    /\ e.form[i].cls_ \in {"ChoiceField", "DynamicChoiceField"}
    /\ Parts(e.data)[5] = IntToStr(n)
    /\ n < Len(e.form[i].choices)

\* the fields with the n-th choice (counted from 0) as the value of field i
WithChoice(fields, i, n) == [fields EXCEPT ![i].value = StrV(fields[i].choices[n + 1])]

\* C21: inline choice selection.  A FIELD_HANDLER callback with the index n of a choice of
\* the decoded choice field i edits the form message to the rendering of the decoded form
\* with the n-th choice as the value of field i, under the main keyboard; the message
\* then decodes to the same values of all other fields and the same choices of field i.
\* DISPLAY_MAIN edits the message to the rendering of the decoded form, no field changed.
C21_InlineChoice ==
    [][/\ \A i \in 1..Len(last'.form) : \A n \in 0..MaxChoices :
              SelectsChoice(last', i, n) =>
                /\ exc' = ""
                /\ out' = <<"edit_message_text">>
                /\ msg'.text = TransportText(to_message(WithChoice(last'.form, i, n)))
                /\ msg'.html = TransportHtml(to_message(WithChoice(last'.form, i, n)))
                /\ MainLayout(msg'.markup, cls, last'.form)
                /\ Len(DecodedFrom(msg')) = Len(last'.form)
                /\ DecodedFrom(msg')[i].choices = last'.form[i].choices
                /\ \A j \in 1..Len(last'.form) :
                       j # i => SameField(DecodedFrom(msg')[j], last'.form[j])
       /\ HasAction(last', DISPLAY_MAIN) =>
                /\ exc' = ""
                /\ out' = <<"edit_message_text">>
                /\ MainLayout(msg'.markup, cls, last'.form)
                /\ DecodedFrom(msg') = last'.form]_vars

\* the second choice of a dynamic-choice field was selected on its choice keyboard
C21_Witness ==
    /\ \E i \in 1..Len(last.form) :
           /\ SelectsChoice(last, i, 1)
           /\ last.form[i].cls_ = "DynamicChoiceField"
           /\ Len(last.form[i].choices) = MaxChoices
           /\ DecodedFrom(msg)[i].value = StrV(last.form[i].choices[2])
    /\ out = <<"edit_message_text">>

\* the icons that the rule allows for the field f: the lock for a read-only field, else
\* the needs-value icon for a required field without a value, else the edit icon or,
\* for a boolean with a value, the glyph of the value
IconsByRule(f) ==
    IF f.read_only THEN {READ_ONLY_ICON}
    ELSE IF f.required /\ f.value = None THEN {MISSING_VALUE_ICON}
    ELSE IF f.cls_ = "BoolField" /\ f.value # None THEN {EDIT_ICON, val2repr(f.value.b)}
    ELSE {EDIT_ICON}

\* C22: field icon rule.  Sending a form succeeds for every state of its fields; the
\* line of every field starts with an icon that the rule allows, and the button of
\* every field that is not read-only shows such an icon in front of the label.
C22_FieldIconRule ==
    [][last'.kind = "send_form" =>
            /\ exc' = ""
            /\ Len(SplitLines(msg'.text)) = Len(last'.form)
            /\ \A i \in 1..Len(last'.form) :
                   /\ <<SplitLines(msg'.text)[i][1]>> \in IconsByRule(last'.form[i])
                   /\ ~last'.form[i].read_only =>
                          IconOf(msg', cls, last'.form[i])
                              \subseteq {ic \o <<" ">> \o last'.form[i].label :
                                            ic \in IconsByRule(last'.form[i])}
                   /\ ~last'.form[i].read_only => IconOf(msg', cls, last'.form[i]) # {}]_vars

\* every field of the form instance fields is a copy, none is the schema's own object
OwnsItsFields(fields) == \A i \in 1..Len(fields) : fields[i].obj = "copy"

\* the form instances a state holds: the one built fresh, the ones from_message built
\* (for the codec, for the last callback, for the callbacks of the application) and
\* the ones that pending continuations keep
Instances ==
    {form, FormOf(decoded), last.form, cb_form, DecodedFrom(msg)}
    \cup {next_step_handlers[k].form : k \in 1..Len(next_step_handlers)}

\* C23: clone-on-construct.  Once the class is built, whatever has been done since
\* (forms constructed and decoded, values and dynamic choice lists assigned, buttons
\* toggled, choices selected, free text accepted), the schema's field definitions are
\* those the class statement declared, value and choices included; every form
\* instance, built fresh or by from_message, holds copies of them and never the
\* definitions themselves; and a form constructed now has the declared defaults.
C23_CloneOnConstruct ==
    pc \notin {"declared", "build_failed"} =>
        /\ cls.fields_dict = NamedFields(cls.attrs)
        /\ \A fields \in Instances : OwnsItsFields(fields)
        /\ form_init(cls, <<>>).ok
        /\ Len(form_init(cls, <<>>).val) = Len(cls.attrs)
        /\ \A i \in 1..Len(cls.attrs) :
               /\ form_init(cls, <<>>).val[i].value = cls.attrs[i].field.value
               /\ form_init(cls, <<>>).val[i].choices = cls.attrs[i].field.choices

\* a handler has acted on a decoded form whose values differ from the declared ones,
\* after a dynamic choice list was assigned to the form built fresh
C23_Witness ==
    /\ pc = "chat"
    /\ last.kind \in {"callback", "text"}
    /\ exc = ""
    /\ Len(DecodedFrom(msg)) = Len(cls.fields_dict)
    /\ \E i \in 1..Len(cls.fields_dict) :
           /\ DecodedFrom(msg)[i].value # cls.fields_dict[i].value
    /\ \E i \in 1..Len(form) : form[i].choices # cls.fields_dict[i].choices

\* C24: the global cancel token.  Handling the callback __fg/cancel of a prompt's Cancel
\* button deletes that prompt message and nothing else, removes every continuation
\* registered for the chat, leaves the form message (text and keyboard) as it was, and
\* calls neither the form's cancel callback nor anything else of the application; a
\* text message that comes next changes nothing: no field, no message, no call.
C24_GlobalCancel ==
    [][/\ last'.kind = "prompt_cancel" =>
              /\ last'.data = <<"__fg", "/", "cancel">>
              /\ exc' = ""
              /\ \E i \in 1..Len(prompts) :
                     /\ prompts[i] = "open"
                     /\ prompts' = [prompts EXCEPT ![i] = "deleted"]
              /\ next_step_handlers' = <<>>
              /\ msg' = msg
              /\ out' = <<"delete_message">>
              /\ cb_form' = <<>>
              /\ \A t \in Texts :
                     run_next_steps(World(msg', prompts', <<>>), cls', next_step_handlers', t)
                         = World(msg', prompts', <<>>)
       /\ (last.kind = "prompt_cancel" /\ last'.kind = "text") =>
              /\ msg' = msg
              /\ prompts' = prompts
              /\ next_step_handlers' = <<>>
              /\ out' = <<>>
              /\ exc' = ""]_vars

\* the Cancel button of one prompt was pressed while another prompt was open too: the
\* form message is live with its keyboard and no continuation is left
C24_Witness ==
    /\ last.kind = "prompt_cancel"
    /\ msg.live
    /\ msg.markup # <<>>
    /\ next_step_handlers = <<>>
    /\ \E i, j \in 1..Len(prompts) : prompts[i] = "deleted" /\ prompts[j] = "open"

=============================================================================
